---- MODULE Spec2Model ----
(***************************************************************************)
(* Model of rank-lib (src/index.ts): the RANK script chunk codec           *)
(* (toProfileIdBuf, toProfileIdUTF8, toPostIdBuf, toPlatformBuf,           *)
(* toPlatformUTF8, toSentimentOpCode, toSentimentUTF8) and the             *)
(* Profile/Post aggregates declared by RankTarget, ProfileMap and PostMap. *)
(*                                                                         *)
(* A JavaScript string is a sequence of Unicode code points, a Buffer is a *)
(* sequence of bytes 0..255.                                               *)
(***************************************************************************)
EXTENDS Integers, Sequences, FiniteSets, TLC

VARIABLES op, arg, res, pool, profiles, posts, aggOp, evicted

vars == <<op, arg, res, pool, profiles, posts, aggOp, evicted>>
codecVars == <<op, arg, res>>
aggVars == <<pool, profiles, posts, aggOp, evicted>>

(***************************************************************************)
(* Bounds of the model                                                     *)
(***************************************************************************)
\* longest profileId tried, in code points (the twitter field is 16 bytes)
MaxProfileIdChars == 18
\* longest postId drawn from PostIdAlphabet
MaxPostIdLen == 3
\* number of distinct txids
MaxTx == 3

(***************************************************************************)
(* Strings and buffers                                                     *)
(***************************************************************************)
\* code points of the profileId alphabet: NUL, 'a', U+00E9, U+20AC, U+1F600
ProfileIdAlphabet == {0, 97, 233, 8364, 128512}

RECURSIVE Rep(_, _)
Rep(c, n) == IF n = 0 THEN <<>> ELSE <<c>> \o Rep(c, n - 1)

\* profileIds tried: a run of one character followed by a run of another
ProfileIds ==
  { Rep(c1, i) \o Rep(c2, j) :
      <<c1, c2, i, j>> \in
        { q \in ProfileIdAlphabet \X ProfileIdAlphabet
                 \X (0..MaxProfileIdChars) \X (0..MaxProfileIdChars) :
            q[3] + q[4] <= MaxProfileIdChars } }

\* String.prototype.length counts UTF-16 code units
Utf16Units(c) == IF c < 65536 THEN 1 ELSE 2

RECURSIVE StrLength(_)
StrLength(s) == IF s = <<>> THEN 0 ELSE Utf16Units(Head(s)) + StrLength(Tail(s))

\* the UTF-8 bytes of one code point
Utf8Encode(c) ==
  IF c < 128 THEN <<c>>
  ELSE IF c < 2048 THEN <<192 + (c \div 64), 128 + (c % 64)>>
  ELSE IF c < 65536
    THEN <<224 + (c \div 4096), 128 + ((c \div 64) % 64), 128 + (c % 64)>>
    ELSE <<240 + (c \div 262144), 128 + ((c \div 4096) % 64),
           128 + ((c \div 64) % 64), 128 + (c % 64)>>

RECURSIVE Utf8Bytes(_)
Utf8Bytes(s) == IF s = <<>> THEN <<>> ELSE Utf8Encode(Head(s)) \o Utf8Bytes(Tail(s))

\* Buffer.alloc(n): n zero bytes
BufferAlloc(n) == [i \in 1..n |-> 0]

\* buf with the bytes e stored from 0-based offset off (they fit)
StoreAt(buf, e, off) ==
  [i \in 1..Len(buf) |->
     IF i > off /\ i <= off + Len(e) THEN e[i - off] ELSE buf[i]]

\* utf8Write: whole characters are written while they fit; the first
\* character that does not fit ends the write
RECURSIVE Utf8Write(_, _, _)
Utf8Write(buf, s, off) ==
  IF s = <<>> THEN buf
  ELSE LET e == Utf8Encode(Head(s)) IN
       IF off + Len(e) > Len(buf) THEN buf
       ELSE Utf8Write(StoreAt(buf, e, off), Tail(s), off + Len(e))

IsCont(b) == b >= 128 /\ b <= 191

\* TextDecoder('utf-8').decode body: malformed input yields U+FFFD
RECURSIVE Utf8Decode(_)
Utf8Decode(b) ==
  IF b = <<>> THEN <<>>
  ELSE LET b1 == b[1]
           need == IF b1 < 128 THEN 0
                   ELSE IF b1 >= 194 /\ b1 <= 223 THEN 1
                   ELSE IF b1 >= 224 /\ b1 <= 239 THEN 2
                   ELSE IF b1 >= 240 /\ b1 <= 244 THEN 3
                   ELSE -1
           lower == IF b1 = 224 THEN 160 ELSE IF b1 = 240 THEN 144 ELSE 128
           upper == IF b1 = 237 THEN 159 ELSE IF b1 = 244 THEN 143 ELSE 191
           \* number of continuation bytes that are present and valid
           good == IF need < 1 \/ Len(b) < 2 \/ b[2] < lower \/ b[2] > upper THEN 0
                   ELSE IF need < 2 \/ Len(b) < 3 \/ ~IsCont(b[3]) THEN 1
                   ELSE IF need < 3 \/ Len(b) < 4 \/ ~IsCont(b[4]) THEN 2
                   ELSE 3
           cp == IF need = 0 THEN b1
                 ELSE IF need = 1 THEN (b1 - 192) * 64 + (b[2] - 128)
                 ELSE IF need = 2
                   THEN (b1 - 224) * 4096 + (b[2] - 128) * 64 + (b[3] - 128)
                   ELSE (b1 - 240) * 262144 + (b[2] - 128) * 4096
                        + (b[3] - 128) * 64 + (b[4] - 128)
       IN IF need = -1 THEN <<65533>> \o Utf8Decode(Tail(b))
          ELSE IF good < need
            THEN <<65533>> \o Utf8Decode(SubSeq(b, good + 2, Len(b)))
            ELSE <<cp>> \o Utf8Decode(SubSeq(b, need + 2, Len(b)))

\* TextDecoder.decode: ignoreBOM is false, a leading U+FEFF is dropped
TextDecode(b) ==
  LET s == Utf8Decode(b) IN
  IF s # <<>> /\ s[1] = 65279 THEN Tail(s) ELSE s

(***************************************************************************)
(* Results of a call                                                       *)
(***************************************************************************)
NoRes == [kind |-> "none", buf |-> <<>>, str |-> <<>>, label |-> "", err |-> ""]
RetBuf(b) == [NoRes EXCEPT !.kind = "buffer", !.buf = b]
RetStr(s) == [NoRes EXCEPT !.kind = "string", !.str = s]
RetLabel(l) == [NoRes EXCEPT !.kind = "label", !.label = l]
RetUndefined == [NoRes EXCEPT !.kind = "undefined"]
Throw(e) == [NoRes EXCEPT !.kind = "throw", !.err = e]

(***************************************************************************)
(* Registries                                                              *)
(***************************************************************************)
\* insertion-ordered Map<number, label>
SCRIPT_CHUNK_SENTIMENT ==
  << [byte |-> 81, label |-> "positive"], [byte |-> 0, label |-> "negative"] >>

SCRIPT_CHUNK_PLATFORM == << [byte |-> 1, label |-> "twitter"] >>

PLATFORMS ==
  [twitter |->
     [profileId |-> [len |-> 16],
      postId |-> [len |-> 8, regex |-> "^[0-9]+$",
                  reader |-> "readBigUInt64BE", type |-> "BigInt"]]]

SupportedPlatforms == DOMAIN PLATFORMS
\* labels handed to the codec: the supported ones and one that is not
PlatformLabels == SupportedPlatforms \cup {"web_url"}
SentimentLabels == {"positive", "negative", "neutral"}

\* a lookup that falls back to the first registered label
MapGet_default(m, k) ==
  IF \E i \in 1..Len(m) : m[i].byte = k
  THEN RetLabel(m[CHOOSE i \in 1..Len(m) : m[i].byte = k].label)
  ELSE RetLabel(m[1].label)

\* Map.prototype.get
MapGet(m, k) ==
  IF \E i \in 1..Len(m) : m[i].byte = k
  THEN RetLabel(m[CHOOSE i \in 1..Len(m) : m[i].byte = k].label)
  ELSE RetUndefined

(***************************************************************************)
(* profileId                                                               *)
(***************************************************************************)
toProfileIdBuf(platform, profileId) ==
  IF platform \notin DOMAIN PLATFORMS
  THEN Throw("TypeError")
  ELSE LET platformSpec == PLATFORMS[platform]
           profileBuf == BufferAlloc(platformSpec.profileId.len)
           offset == platformSpec.profileId.len - StrLength(profileId)
       IN \* Buffer.prototype.write validates 0 <= offset <= buf.length
          IF offset < 0 \/ offset > Len(profileBuf)
          THEN Throw("ERR_OUT_OF_RANGE")
          ELSE RetBuf(Utf8Write(profileBuf, profileId, offset))

toProfileIdUTF8(profileIdBuf) ==
  RetStr(TextDecode(SelectSeq(profileIdBuf, LAMBDA byte : byte # 0)))

(***************************************************************************)
(* postId                                                                  *)
(***************************************************************************)
\* code points of the postId alphabet: ' ', '-', '0', '1', '2', '5', '6',
\* '9', 'a', 'x'
PostIdAlphabet == {32, 45, 48, 49, 50, 53, 54, 57, 97, 120}

\* "1453489038468431875"
PostIdExample ==
  <<49, 52, 53, 51, 52, 56, 57, 48, 51, 56, 52, 54, 56, 52, 51, 49, 56, 55, 53>>
\* "18446744073709551615" = 2^64 - 1
PostIdMaxUInt64 ==
  <<49, 56, 52, 52, 54, 55, 52, 52, 48, 55, 51, 55, 48, 57, 53, 53, 49, 54, 49, 53>>
\* "18446744073709551616" = 2^64
PostIdTwoTo64 ==
  <<49, 56, 52, 52, 54, 55, 52, 52, 48, 55, 51, 55, 48, 57, 53, 53, 49, 54, 49, 54>>

\* postIds tried: every string over the alphabet up to MaxPostIdLen, and
\* the three long identifiers above
PostIds ==
  UNION { [1..k -> PostIdAlphabet] : k \in 0..MaxPostIdLen }
    \cup {PostIdExample, PostIdMaxUInt64, PostIdTwoTo64}

\* value of a digit character in radix 16, -1 when it is none
DigitVal(c) ==
  IF c >= 48 /\ c <= 57 THEN c - 48
  ELSE IF c >= 97 /\ c <= 102 THEN c - 87
  ELSE IF c >= 65 /\ c <= 70 THEN c - 55
  ELSE -1

\* ds * m + carry, ds and the result little-endian digits in the given base
RECURSIVE MulAddLE(_, _, _, _)
MulAddLE(base, ds, m, carry) ==
  IF ds = <<>>
  THEN IF carry = 0 THEN <<>>
       ELSE <<carry % base>> \o MulAddLE(base, <<>>, m, carry \div base)
  ELSE LET v == Head(ds) * m + carry
       IN <<v % base>> \o MulAddLE(base, Tail(ds), m, v \div base)

\* drop the most significant zero digits of a little-endian number
RECURSIVE Normalize(_)
Normalize(ds) ==
  IF ds # <<>> /\ ds[Len(ds)] = 0 THEN Normalize(SubSeq(ds, 1, Len(ds) - 1)) ELSE ds

\* the digits s in the given radix, as little-endian hexadecimal digits
RECURSIVE ParseDigits(_, _, _)
ParseDigits(s, radix, acc) ==
  IF s = <<>> THEN Normalize(acc)
  ELSE ParseDigits(Tail(s), radix, MulAddLE(16, acc, radix, DigitVal(Head(s))))

IsWhiteSpace(c) == c \in {9, 10, 11, 12, 13, 32, 160, 5760, 8232, 8233, 8239, 8287, 12288, 65279}

RECURSIVE TrimStart(_)
TrimStart(s) == IF s # <<>> /\ IsWhiteSpace(s[1]) THEN TrimStart(Tail(s)) ELSE s

RECURSIVE TrimEnd(_)
TrimEnd(s) ==
  IF s # <<>> /\ IsWhiteSpace(s[Len(s)]) THEN TrimEnd(SubSeq(s, 1, Len(s) - 1)) ELSE s

AllDigits(s, radix) ==
  s # <<>> /\ \A i \in 1..Len(s) : DigitVal(s[i]) >= 0 /\ DigitVal(s[i]) < radix

\* BigInt(string): StringToBigInt. ok = FALSE is the SyntaxError.
\* mag = little-endian hexadecimal digits of the magnitude, <<>> for zero
StringToBigInt(str) ==
  LET t == TrimEnd(TrimStart(str))
      radix == IF Len(t) >= 2 /\ t[1] = 48
               THEN IF t[2] \in {120, 88} THEN 16
                    ELSE IF t[2] \in {111, 79} THEN 8
                    ELSE IF t[2] \in {98, 66} THEN 2
                    ELSE 10
               ELSE 10
      signed == t # <<>> /\ t[1] \in {43, 45}
      body == IF radix # 10 THEN SubSeq(t, 3, Len(t))
              ELSE IF signed THEN Tail(t) ELSE t
  IN IF t = <<>> THEN [ok |-> TRUE, neg |-> FALSE, mag |-> <<>>]
     ELSE IF ~AllDigits(body, radix) THEN [ok |-> FALSE, neg |-> FALSE, mag |-> <<>>]
     ELSE LET mag == ParseDigits(body, radix, <<>>)
          IN [ok |-> TRUE, neg |-> (t[1] = 45 /\ radix = 10 /\ mag # <<>>), mag |-> mag]

HexChar(d) == IF d < 10 THEN 48 + d ELSE 87 + d

\* BigInt.prototype.toString(16)
BigIntToString16(v) ==
  IF v.mag = <<>> THEN <<48>>
  ELSE (IF v.neg THEN <<45>> ELSE <<>>)
       \o [i \in 1..Len(v.mag) |-> HexChar(v.mag[Len(v.mag) + 1 - i])]

\* Buffer.from(string, 'hex'): one byte per pair of hexadecimal characters;
\* decoding ends at the first pair that is not hexadecimal, and a trailing
\* single character is dropped
RECURSIVE BufferFromHex(_)
BufferFromHex(str) ==
  IF Len(str) < 2 THEN <<>>
  ELSE LET a == DigitVal(str[1])
           b == DigitVal(str[2])
       IN IF a < 0 \/ b < 0 THEN <<>>
          ELSE <<a * 16 + b>> \o BufferFromHex(SubSeq(str, 3, Len(str)))

toPostIdBuf(platform, postId) ==
  IF platform \notin DOMAIN PLATFORMS
  THEN Throw("TypeError")
  ELSE CASE PLATFORMS[platform].postId.type = "BigInt" ->
              LET n == StringToBigInt(postId)
              IN IF ~n.ok THEN Throw("SyntaxError")
                 ELSE RetBuf(BufferFromHex(BigIntToString16(n)))
         [] PLATFORMS[platform].postId.type = "String" ->
              RetBuf(Utf8Bytes(postId))

(***************************************************************************)
(* platform and sentiment                                                  *)
(***************************************************************************)
\* Buffer.alloc(byte) in place of Buffer.from([byte])
toPlatformBuf_alloc(platform) ==
  LET hits == { i \in 1..Len(SCRIPT_CHUNK_PLATFORM) :
                  SCRIPT_CHUNK_PLATFORM[i].label = platform }
  IN IF hits = {} THEN RetUndefined
     ELSE RetBuf(BufferAlloc(SCRIPT_CHUNK_PLATFORM[
                     CHOOSE i \in hits : \A j \in hits : i <= j].byte))

\* for (const [byte, platformName] of SCRIPT_CHUNK_PLATFORM): first match
toPlatformBuf(platform) ==
  LET hits == { i \in 1..Len(SCRIPT_CHUNK_PLATFORM) :
                  SCRIPT_CHUNK_PLATFORM[i].label = platform }
  IN IF hits = {} THEN RetUndefined
     ELSE RetBuf(<<SCRIPT_CHUNK_PLATFORM[
                     CHOOSE i \in hits : \A j \in hits : i <= j].byte>>)

\* Buffer.prototype.readUint8(): offset 0 needs one byte
toPlatformUTF8(platformBuf) ==
  IF Len(platformBuf) < 1 THEN Throw("ERR_OUT_OF_RANGE")
  ELSE MapGet(SCRIPT_CHUNK_PLATFORM, platformBuf[1])

\* the two cases exchanged
toSentimentOpCode_swapped(sentiment) ==
  CASE sentiment = "positive" -> RetLabel("OP_0")
    [] sentiment = "negative" -> RetLabel("OP_1")
    [] OTHER -> RetUndefined

toSentimentOpCode(sentiment) ==
  CASE sentiment = "positive" -> RetLabel("OP_1")
    [] sentiment = "negative" -> RetLabel("OP_0")
    [] OTHER -> RetUndefined

toSentimentUTF8(sentimentBuf) ==
  IF Len(sentimentBuf) < 1 THEN Throw("ERR_OUT_OF_RANGE")
  ELSE MapGet(SCRIPT_CHUNK_SENTIMENT, sentimentBuf[1])

\* the script byte of an opcode name: OP_1 | OP_TRUE is 0x51, OP_0 | OP_FALSE
\* is 0x00
OpCodeByte(name) ==
  CASE name = "OP_1" -> 81
    [] name = "OP_0" -> 0

(***************************************************************************)
(* The codec as a state machine.  arg holds the arguments of a call        *)
(* (arg.call names the function they are for, arg.from the call whose      *)
(* result was passed in, "" for arguments of the caller's own), op is the  *)
(* last call made ("idle" before the first) and res its result.            *)
(***************************************************************************)
NoArg ==
  [call |-> "", platform |-> "", sentiment |-> "", profileId |-> <<>>,
   postId |-> <<>>, buf |-> <<>>, from |-> ""]

\* buffers handed to the one-byte decoders: empty, or any single byte
ByteBuffers == {<<>>} \cup { <<b>> : b \in 0..255 }

\* the arguments a caller may pass
Arguments ==
  { [NoArg EXCEPT !.call = "toProfileIdBuf", !.platform = q[1], !.profileId = q[2]] :
      q \in PlatformLabels \X ProfileIds }
  \cup
  { [NoArg EXCEPT !.call = "toPostIdBuf", !.platform = q[1], !.postId = q[2]] :
      q \in PlatformLabels \X PostIds }
  \cup
  { [NoArg EXCEPT !.call = "toPlatformBuf", !.platform = l] : l \in PlatformLabels }
  \cup
  { [NoArg EXCEPT !.call = "toPlatformUTF8", !.buf = b] : b \in ByteBuffers }
  \cup
  { [NoArg EXCEPT !.call = "toSentimentOpCode", !.sentiment = l] : l \in SentimentLabels }
  \cup
  { [NoArg EXCEPT !.call = "toSentimentUTF8", !.buf = b] : b \in ByteBuffers }

CallToProfileIdBuf ==
  /\ op = "idle"
  /\ arg.call = "toProfileIdBuf"
  /\ op' = "toProfileIdBuf"
  /\ res' = toProfileIdBuf(arg.platform, arg.profileId)
  /\ UNCHANGED <<arg, aggVars>>

\* decode the buffer the last toProfileIdBuf returned
CallToProfileIdUTF8 ==
  /\ op = "toProfileIdBuf"
  /\ res.kind = "buffer"
  /\ op' = "toProfileIdUTF8"
  /\ arg' = [arg EXCEPT !.call = "toProfileIdUTF8", !.buf = res.buf, !.from = op]
  /\ res' = toProfileIdUTF8(res.buf)
  /\ UNCHANGED aggVars

CallToPostIdBuf ==
  /\ op = "idle"
  /\ arg.call = "toPostIdBuf"
  /\ op' = "toPostIdBuf"
  /\ res' = toPostIdBuf(arg.platform, arg.postId)
  /\ UNCHANGED <<arg, aggVars>>

CallToPlatformBuf ==
  /\ op = "idle"
  /\ arg.call = "toPlatformBuf"
  /\ op' = "toPlatformBuf"
  /\ res' = toPlatformBuf(arg.platform)
  /\ UNCHANGED <<arg, aggVars>>

\* encode the label the last toPlatformUTF8 returned
CallToPlatformBufOfDecoded ==
  /\ op = "toPlatformUTF8"
  /\ arg.from = ""
  /\ res.kind = "label"
  /\ op' = "toPlatformBuf"
  /\ arg' = [arg EXCEPT !.call = "toPlatformBuf", !.platform = res.label, !.from = op]
  /\ res' = toPlatformBuf(res.label)
  /\ UNCHANGED aggVars

CallToPlatformUTF8 ==
  /\ op = "idle"
  /\ arg.call = "toPlatformUTF8"
  /\ op' = "toPlatformUTF8"
  /\ res' = toPlatformUTF8(arg.buf)
  /\ UNCHANGED <<arg, aggVars>>

\* decode the buffer the last toPlatformBuf returned
CallToPlatformUTF8OfEncoded ==
  /\ op = "toPlatformBuf"
  /\ arg.from = ""
  /\ res.kind = "buffer"
  /\ op' = "toPlatformUTF8"
  /\ arg' = [arg EXCEPT !.call = "toPlatformUTF8", !.buf = res.buf, !.from = op]
  /\ res' = toPlatformUTF8(res.buf)
  /\ UNCHANGED aggVars

CallToSentimentOpCode ==
  /\ op = "idle"
  /\ arg.call = "toSentimentOpCode"
  /\ op' = "toSentimentOpCode"
  /\ res' = toSentimentOpCode(arg.sentiment)
  /\ UNCHANGED <<arg, aggVars>>

CallToSentimentUTF8 ==
  /\ op = "idle"
  /\ arg.call = "toSentimentUTF8"
  /\ op' = "toSentimentUTF8"
  /\ res' = toSentimentUTF8(arg.buf)
  /\ UNCHANGED <<arg, aggVars>>

\* decode the script byte of the opcode the last toSentimentOpCode returned
CallToSentimentUTF8OfOpCode ==
  /\ op = "toSentimentOpCode"
  /\ res.kind = "label"
  /\ op' = "toSentimentUTF8"
  /\ arg' = [arg EXCEPT !.call = "toSentimentUTF8",
                        !.buf = <<OpCodeByte(res.label)>>, !.from = op]
  /\ res' = toSentimentUTF8(<<OpCodeByte(res.label)>>)
  /\ UNCHANGED aggVars

InitCodec ==
  /\ op = "idle"
  /\ arg \in Arguments
  /\ res = NoRes

(***************************************************************************)
(* Ranking aggregates: ProfileMap and PostMap of RankTarget records, a     *)
(* function from <<platform, id>> to the aggregate.  pool is the stream of *)
(* decoded RankTransaction records, one per txid, immutable.               *)
(***************************************************************************)
TxIds == 1..MaxTx

\* decoded transactions: votes for profile "abc", profile "xyz", and for
\* post "p1" of profile "abc" (postId "" = no postId)
RankTransactions ==
  { t \in [sentiment : {"positive", "negative"}, platform : {"twitter"},
           profileId : {"abc", "xyz"}, postId : {"", "p1"}] :
      t.postId = "p1" => t.profileId = "abc" }

EmptyMap == [k \in {} |-> 0]
MapPut(m, k, v) == [x \in DOMAIN m \cup {k} |-> IF x = k THEN v ELSE m[x]]
MapDelete(m, k) == [x \in DOMAIN m \ {k} |-> m[x]]

HasTxid(ranks, txid) == \E i \in 1..Len(ranks) : ranks[i].txid = txid

\* Unseen -> Tracked: the first transaction creates the aggregate;
\* Tracked: a new txid is appended and counted, a tracked txid is a no-op
IngestInto(m, key, txid, tx) ==
  LET rank == [txid |-> txid, sentiment |-> tx.sentiment]
      pos == IF tx.sentiment = "positive" THEN 1 ELSE 0
      neg == IF tx.sentiment = "negative" THEN 1 ELSE 0
  IN IF key \notin DOMAIN m
     THEN MapPut(m, key,
            [id |-> key[2], platform |-> key[1], profileId |-> tx.profileId,
             ranks |-> <<rank>>, votesPositive |-> pos, votesNegative |-> neg,
             ranking |-> pos - neg])
     ELSE IF HasTxid(m[key].ranks, txid) THEN m
     ELSE LET t == m[key]
              vp == t.votesPositive + pos
              vn == t.votesNegative + neg
          IN MapPut(m, key,
               [t EXCEPT !.ranks = Append(t.ranks, rank), !.votesPositive = vp,
                         !.votesNegative = vn, !.ranking = vp - vn])

\* a rollback that leaves the vote counters as they were
EvictFrom_nodecrement(m, key, txid) ==
  LET t == m[key]
      ranks == SelectSeq(t.ranks, LAMBDA r : r.txid # txid)
  IN IF ranks = <<>> THEN MapDelete(m, key)
     ELSE MapPut(m, key,
            [t EXCEPT !.ranks = ranks,
                      !.ranking = t.votesPositive - t.votesNegative])

\* a rollback that keeps a target whose ranks became empty
EvictFrom_keepempty(m, key, txid) ==
  LET t == m[key]
      i == CHOOSE j \in 1..Len(t.ranks) : t.ranks[j].txid = txid
      vp == t.votesPositive - (IF t.ranks[i].sentiment = "positive" THEN 1 ELSE 0)
      vn == t.votesNegative - (IF t.ranks[i].sentiment = "negative" THEN 1 ELSE 0)
      ranks == SelectSeq(t.ranks, LAMBDA r : r.txid # txid)
  IN MapPut(m, key,
       [t EXCEPT !.ranks = ranks, !.votesPositive = vp,
                 !.votesNegative = vn, !.ranking = vp - vn])

\* Rollback of one txid in one target: the matching transaction leaves
\* ranks, its counter is decremented, ranking is recomputed; a target whose
\* ranks become empty leaves the map
EvictFrom(m, key, txid) ==
  LET t == m[key]
      i == CHOOSE j \in 1..Len(t.ranks) : t.ranks[j].txid = txid
      vp == t.votesPositive - (IF t.ranks[i].sentiment = "positive" THEN 1 ELSE 0)
      vn == t.votesNegative - (IF t.ranks[i].sentiment = "negative" THEN 1 ELSE 0)
      ranks == SelectSeq(t.ranks, LAMBDA r : r.txid # txid)
  IN IF ranks = <<>> THEN MapDelete(m, key)
     ELSE MapPut(m, key,
            [t EXCEPT !.ranks = ranks, !.votesPositive = vp,
                      !.votesNegative = vn, !.ranking = vp - vn])

\* Rollback of one txid in a map; a txid no target holds is a no-op
EvictTxid(m, txid) ==
  LET holders == { k \in DOMAIN m : HasTxid(m[k].ranks, txid) }
  IN IF holders = {} THEN m
     ELSE EvictFrom(m, CHOOSE k \in holders : TRUE, txid)

\* Rollback of a set of txids, one after the other
RECURSIVE EvictAll(_, _)
EvictAll(m, txids) ==
  IF txids = {} THEN m
  ELSE LET txid == CHOOSE x \in txids : TRUE
       IN EvictAll(EvictTxid(m, txid), txids \ {txid})

Tracked(txid) ==
  \/ \E k \in DOMAIN profiles : HasTxid(profiles[k].ranks, txid)
  \/ \E k \in DOMAIN posts : HasTxid(posts[k].ranks, txid)

\* ingestion of one decoded transaction: a vote with a postId goes to the
\* post target, a vote without to the profile target
Ingest ==
  \E txid \in TxIds :
    LET tx == pool[txid] IN
    /\ aggOp' = IF Tracked(txid) THEN "reingest" ELSE "ingest"
    /\ evicted' = {}
    /\ IF tx.postId = ""
       THEN /\ profiles' = IngestInto(profiles, <<tx.platform, tx.profileId>>, txid, tx)
            /\ posts' = posts
       ELSE /\ posts' = IngestInto(posts, <<tx.platform, tx.postId>>, txid, tx)
            /\ profiles' = profiles
    /\ UNCHANGED <<pool, codecVars>>

\* reorg: the whole set of evicted txids is rolled back in one step
Rollback ==
  \E txids \in SUBSET TxIds \ {{}} :
    /\ aggOp' = "rollback"
    /\ evicted' = txids
    /\ profiles' = EvictAll(profiles, txids)
    /\ posts' = EvictAll(posts, txids)
    /\ UNCHANGED <<pool, codecVars>>

InitAggregator ==
  /\ profiles = EmptyMap
  /\ posts = EmptyMap
  /\ aggOp = "init"
  /\ evicted = {}

(***************************************************************************)
(* Specifications                                                          *)
(***************************************************************************)
\* the codec alone: no transaction is ever ingested
Init ==
  /\ InitCodec
  /\ InitAggregator
  /\ pool = [txid \in TxIds |-> CHOOSE t \in RankTransactions : TRUE]

Next ==
  \/ CallToProfileIdBuf
  \/ CallToProfileIdUTF8
  \/ CallToPostIdBuf
  \/ CallToPlatformBuf
  \/ CallToPlatformBufOfDecoded
  \/ CallToPlatformUTF8
  \/ CallToPlatformUTF8OfEncoded
  \/ CallToSentimentOpCode
  \/ CallToSentimentUTF8
  \/ CallToSentimentUTF8OfOpCode

Spec == Init /\ [][Next]_vars

\* the aggregator alone: no codec call is made
InitAgg ==
  /\ op = "idle"
  /\ arg = NoArg
  /\ res = NoRes
  /\ InitAggregator
  /\ pool \in [TxIds -> RankTransactions]

NextAgg == Ingest \/ Rollback

SpecAgg == InitAgg /\ [][NextAgg]_vars

(***************************************************************************)
(* Properties                                                              *)
(***************************************************************************)
Supported(platform) == platform \in SupportedPlatforms
ProfileIdLen(platform) == PLATFORMS[platform].profileId.len
Utf8Length(s) == Len(Utf8Bytes(s))

\* C1: for every supported platform and every profileId whose UTF-8 length
\* exceeds the platform's profileId.len, toProfileIdBuf fails with an error
\* and returns no buffer.
C1_OverlongProfileIdFails ==
  (/\ op = "toProfileIdBuf"
   /\ Supported(arg.platform)
   /\ Utf8Length(arg.profileId) > ProfileIdLen(arg.platform))
  => res.kind = "throw"

IsDecimalDigit(c) == c >= 48 /\ c <= 57

\* s is at most t, for two strings of decimal digits of the same length
RECURSIVE DigitsLeq(_, _)
DigitsLeq(s, t) ==
  \/ s = <<>>
  \/ Head(s) < Head(t)
  \/ Head(s) = Head(t) /\ DigitsLeq(Tail(s), Tail(t))

\* the canonical decimal string of an integer n with 0 <= n < 2^64
CanonicalUInt64(s) ==
  /\ s # <<>>
  /\ \A i \in 1..Len(s) : IsDecimalDigit(s[i])
  /\ Len(s) > 1 => s[1] # 48
  /\ \/ Len(s) < Len(PostIdMaxUInt64)
     \/ Len(s) = Len(PostIdMaxUInt64) /\ DigitsLeq(s, PostIdMaxUInt64)

\* the bytes b as a big-endian unsigned integer, little-endian decimal digits
RECURSIVE BigEndianValue(_, _)
BigEndianValue(b, acc) ==
  IF b = <<>> THEN acc
  ELSE BigEndianValue(Tail(b), MulAddLE(10, acc, 256, Head(b)))

\* the decimal string of the bytes b read as a big-endian unsigned integer
BytesToDecimal(b) ==
  LET ds == Normalize(BigEndianValue(b, <<>>))
  IN IF ds = <<>> THEN <<48>>
     ELSE [i \in 1..Len(ds) |-> 48 + ds[Len(ds) + 1 - i]]

\* C2: for twitter and every postId that is the canonical decimal string of
\* an integer n, 0 <= n < 2^64, the bytes toPostIdBuf returns, read as a
\* big-endian unsigned integer, are n: decoding gives the same string.
C2_PostIdBigEndianValue ==
  (/\ op = "toPostIdBuf"
   /\ arg.platform = "twitter"
   /\ CanonicalUInt64(arg.postId))
  => (res.kind = "buffer" /\ BytesToDecimal(res.buf) = arg.postId)

\* PLATFORMS[platform].postId.regex.test(postId); /^[0-9]+$/ for twitter
MatchesPostIdRegex(platform, postId) ==
  /\ PLATFORMS[platform].postId.regex = "^[0-9]+$"
  /\ postId # <<>>
  /\ \A i \in 1..Len(postId) : IsDecimalDigit(postId[i])

\* C3: for every supported platform and every postId that does not match
\* the platform's postId pattern, toPostIdBuf fails and returns no bytes.
C3_InvalidPostIdFails ==
  (/\ op = "toPostIdBuf"
   /\ Supported(arg.platform)
   /\ ~MatchesPostIdRegex(arg.platform, arg.postId))
  => res.kind = "throw"

\* C4: for every supported platform and every profileId that fits the
\* platform's width, toProfileIdBuf returns exactly profileId.len bytes:
\* zero bytes followed by the UTF-8 bytes of profileId.
C4_ProfileIdRightAligned ==
  (/\ op = "toProfileIdBuf"
   /\ Supported(arg.platform)
   /\ Utf8Length(arg.profileId) <= ProfileIdLen(arg.platform))
  => /\ res.kind = "buffer"
     /\ Len(res.buf) = ProfileIdLen(arg.platform)
     /\ res.buf = BufferAlloc(ProfileIdLen(arg.platform) - Utf8Length(arg.profileId))
                    \o Utf8Bytes(arg.profileId)

\* C5: for every supported platform and every profileId without a NUL
\* character that fits the platform's width,
\* toProfileIdUTF8(toProfileIdBuf(platform, profileId)) is profileId.
C5_ProfileIdRoundTrip ==
  (/\ op = "toProfileIdUTF8"
   /\ arg.from = "toProfileIdBuf"
   /\ Supported(arg.platform)
   /\ \A i \in 1..Len(arg.profileId) : arg.profileId[i] # 0
   /\ Utf8Length(arg.profileId) <= ProfileIdLen(arg.platform))
  => res = RetStr(arg.profileId)

\* the labels a registry holds for a byte, and its bytes for a label
LabelsOf(m, byte) == { m[i].label : i \in { j \in 1..Len(m) : m[j].byte = byte } }
BytesOf(m, label) == { m[i].byte : i \in { j \in 1..Len(m) : m[j].label = label } }

\* C6: for every label registered in SCRIPT_CHUNK_PLATFORM toPlatformBuf
\* returns exactly one byte and toPlatformUTF8 of it returns the label; for
\* every registered code b, toPlatformBuf(toPlatformUTF8([b])) is [b].
C6_PlatformRoundTrip ==
  /\ (op = "toPlatformBuf" /\ BytesOf(SCRIPT_CHUNK_PLATFORM, arg.platform) # {})
       => (res.kind = "buffer" /\ Len(res.buf) = 1)
  /\ (op = "toPlatformUTF8" /\ arg.from = "toPlatformBuf")
       => res = RetLabel(arg.platform)
  /\ (op = "toPlatformBuf" /\ arg.from = "toPlatformUTF8")
       => res = RetBuf(arg.buf)

C6_Witness ==
  /\ op = "toPlatformBuf"
  /\ arg.from = "toPlatformUTF8"
  /\ arg.buf = <<1>>
  /\ arg.platform = "twitter"
  /\ res.buf = <<1>>

\* C7: for positive and negative, the opcode toSentimentOpCode returns is
\* the byte SCRIPT_CHUNK_SENTIMENT registers for the sentiment (0x51 for
\* positive, 0x00 for negative) and toSentimentUTF8 of that byte returns
\* the sentiment.
C7_SentimentRoundTrip ==
  /\ (op = "toSentimentOpCode" /\ arg.sentiment \in {"positive", "negative"})
       => /\ res.kind = "label"
          /\ BytesOf(SCRIPT_CHUNK_SENTIMENT, arg.sentiment) = {OpCodeByte(res.label)}
          /\ OpCodeByte(res.label) = IF arg.sentiment = "positive" THEN 81 ELSE 0
  /\ (op = "toSentimentUTF8" /\ arg.from = "toSentimentOpCode")
       => res = RetLabel(arg.sentiment)

C7_Witness ==
  /\ op = "toSentimentUTF8"
  /\ arg.from = "toSentimentOpCode"
  /\ arg.sentiment = "positive"
  /\ arg.buf = <<81>>
  /\ res.label = "positive"

\* what a one-byte decode over registry m must return for buffer b
DecodesThrough(m, b) ==
  IF LabelsOf(m, b[1]) = {}
  THEN res.kind = "undefined"
  ELSE res.kind = "label" /\ LabelsOf(m, b[1]) = {res.label}

\* C8: for a one-byte buffer whose value is not a key of the registry,
\* toPlatformUTF8 and toSentimentUTF8 return undefined and do not throw;
\* for a registered byte they return exactly the registered label.
C8_UnknownByteIsUndefined ==
  /\ (op = "toPlatformUTF8" /\ Len(arg.buf) = 1)
       => DecodesThrough(SCRIPT_CHUNK_PLATFORM, arg.buf)
  /\ (op = "toSentimentUTF8" /\ Len(arg.buf) = 1)
       => DecodesThrough(SCRIPT_CHUNK_SENTIMENT, arg.buf)

C8_Witness ==
  /\ op = "toPlatformUTF8"
  /\ arg.buf = <<2>>
  /\ res.kind = "undefined"

CountOf(ranks, sentiment) ==
  Cardinality({ i \in 1..Len(ranks) : ranks[i].sentiment = sentiment })

Consistent(t) ==
  /\ t.votesPositive = CountOf(t.ranks, "positive")
  /\ t.votesNegative = CountOf(t.ranks, "negative")
  /\ t.votesPositive + t.votesNegative = Len(t.ranks)
  /\ t.ranking = t.votesPositive - t.votesNegative

\* C9: after any sequence of ingestions (re-ingestions included) and
\* rollbacks (of txids never ingested included), every tracked Profile and
\* Post has votesPositive = number of positive ranks, votesNegative = number
\* of negative ranks, their sum = length(ranks), ranking = their difference.
C9_VotesMatchRanks ==
  /\ \A k \in DOMAIN profiles : Consistent(profiles[k])
  /\ \A k \in DOMAIN posts : Consistent(posts[k])

C9_Witness ==
  /\ aggOp = "reingest"
  /\ <<"twitter", "abc">> \in DOMAIN profiles
  /\ profiles[<<"twitter", "abc">>].votesPositive = 1
  /\ profiles[<<"twitter", "abc">>].votesNegative = 1
  /\ <<"twitter", "p1">> \in DOMAIN posts

\* map after is map before with the transactions of txids rolled back
RolledBack(before, after, txids) ==
  /\ DOMAIN after \subseteq DOMAIN before
  /\ \A k \in DOMAIN before :
       LET kept == SelectSeq(before[k].ranks, LAMBDA r : r.txid \notin txids)
       IN IF kept = <<>> THEN k \notin DOMAIN after
          ELSE /\ k \in DOMAIN after
               /\ after[k].ranks = kept
               /\ kept = before[k].ranks => after[k] = before[k]

NoEmptyRanks(m) == \A k \in DOMAIN m : m[k].ranks # <<>>

\* C10: a rollback of a set of txids removes each matching transaction from
\* its target's ranks and leaves every other target unchanged; a target
\* whose ranks it empties leaves the map; no state holds an aggregate with
\* empty ranks.
C10_RollbackRemoves ==
  [][ /\ NoEmptyRanks(profiles') /\ NoEmptyRanks(posts')
      /\ aggOp' = "rollback" =>
           /\ RolledBack(profiles, profiles', evicted')
           /\ RolledBack(posts, posts', evicted') ]_vars

\* 2 positive + 1 negative for profile "abc", the negative one evicted
C10_Witness ==
  /\ aggOp = "rollback"
  /\ \E txid \in evicted :
       pool[txid] = [sentiment |-> "negative", platform |-> "twitter",
                     profileId |-> "abc", postId |-> ""]
  /\ <<"twitter", "abc">> \in DOMAIN profiles
  /\ profiles[<<"twitter", "abc">>].votesPositive = 2
  /\ profiles[<<"twitter", "abc">>].votesNegative = 0
  /\ profiles[<<"twitter", "abc">>].ranking = 2
  /\ Len(profiles[<<"twitter", "abc">>].ranks) = 2

====
